---- MODULE Spec2Model ----
(***************************************************************************)
(* The scan orchestration core of tcpd-diagnostics: ScanEngine             *)
(* (src/core/engine.py), BaseScanner (src/core/scanner.py) and the result  *)
(* data model (src/core/result.py).                                        *)
(*                                                                         *)
(* One ScanEngine is constructed, scanners are registered with it, and one *)
(* run_scan call is followed statement by statement.  The bodies of the    *)
(* scanners are black boxes: what a scan() call does (return a result or   *)
(* raise an Exception), which modules import, and how long a call takes    *)
(* are inputs drawn from small sets.  Variables whose names end in _log,   *)
(* and progress_calls, are history variables that record what the code     *)
(* did; the code does not read them.                                       *)
(***************************************************************************)
EXTENDS Integers, Sequences, FiniteSets, TLC

VARIABLES
    is_admin,           \* ScanEngine.is_admin
    scanners_,          \* ScanEngine._scanners: insertion-ordered dict, as a sequence of [key, scanner]
    scanner_state,      \* per scanner instance: [is_admin_ (BaseScanner._is_admin), start_time_ (BaseScanner._start_time)]
    report_,            \* ScanEngine._report: None or Some(DiagnosticsReport)
    pc,                 \* position of the control flow in run_scan
    mode,               \* run_scan's argument mode
    progress_callback,  \* run_scan's argument progress_callback: TRUE when one is supplied
    scanners,           \* run_scan's local scanners
    total,              \* run_scan's local total
    i,                  \* run_scan's loop index
    returned,           \* the value run_scan returned: None before it returns
    clock,              \* time.perf_counter() / datetime.now(), in ticks
    register_log,       \* history: the scanner of every register_scanner call, in call order
    progress_calls,     \* history: the arguments of every progress_callback call, in call order
    run_log             \* history: one entry per BaseScanner.run call, in call order

vars == <<is_admin, scanners_, scanner_state, report_, pc, mode, progress_callback,
          scanners, total, i, returned, clock, register_log, progress_calls, run_log>>

-----------------------------------------------------------------------------
(* Bounds of the model *)

\* register_scanner is called at most this many times
MaxRegisters == 3

\* Two engines receive at most this many register_scanner calls together
MaxEngineRegisters == 3

\* An engine used for several calls receives at most this many
\* register_scanner calls
MaxSessionRegisters == 2

\* An engine used for several calls receives at most this many run_scan and
\* run_single_scanner calls together
MaxCalls == 2

\* The most register_scanner calls before two overlapping run_scan calls
MaxOverlapRegisters == 2

\* A report used on its own holds at most this many results
MaxResults == 2

\* A report used on its own is followed for this many ticks of the clock
MaxClock == 3

-----------------------------------------------------------------------------
(* Python values *)

None == <<>>
Some(x) == <<x>>

\* A str is a sequence of one-character strings where the code transforms it
\* character by character (scanner names); Text gives the str as one value.
RECURSIVE Text(_)
Text(cs) == IF cs = <<>> THEN "" ELSE Head(cs) \o Text(Tail(cs))

UpperCase == <<"A", "B", "C", "D", "E", "F", "G", "H", "I", "J", "K", "L", "M",
               "N", "O", "P", "Q", "R", "S", "T", "U", "V", "W", "X", "Y", "Z">>
LowerCase == <<"a", "b", "c", "d", "e", "f", "g", "h", "i", "j", "k", "l", "m",
               "n", "o", "p", "q", "r", "s", "t", "u", "v", "w", "x", "y", "z">>

\* str.lower()
StrLower(cs) ==
    [k \in DOMAIN cs |->
        IF \E u \in DOMAIN UpperCase : UpperCase[u] = cs[k]
        THEN LowerCase[CHOOSE u \in DOMAIN UpperCase : UpperCase[u] = cs[k]]
        ELSE cs[k]]

\* str.replace(old, new) for one-character old and new
StrReplace(cs, old, new) == [k \in DOMAIN cs |-> IF cs[k] = old THEN new ELSE cs[k]]

\* x in list
InList(x, list) == \E k \in DOMAIN list : list[k] = x

\* str(e) of an Exception constructed with the arguments args (all of them str):
\* no argument gives "", one argument gives str(arg), more give the tuple's repr
RECURSIVE ReprArgs(_)
ReprArgs(args) ==
    IF args = <<>> THEN ""
    ELSE "'" \o Head(args) \o "'" \o (IF Len(args) > 1 THEN ", " ELSE "") \o ReprArgs(Tail(args))

ExceptionStr(args) ==
    IF Len(args) = 0 THEN ""
    ELSE IF Len(args) = 1 THEN args[1]
    ELSE "(" \o ReprArgs(args) \o ")"

-----------------------------------------------------------------------------
(* result.py *)

\* Severity
PASS == "pass"
INFO == "info"
WARNING == "warning"
CRITICAL == "critical"
UNKNOWN == "unknown"
Severity == {PASS, INFO, WARNING, CRITICAL, UNKNOWN}

\* ScanResult(scanner_name, category, success, findings, duration_ms, raw_data,
\* error, timestamp); a dict is the sequence of its items, and timestamp,
\* which no caller gives, is the time of the construction
ScanResult(scanner_name, category, success, findings, duration_ms, raw_data, error, timestamp) ==
    [scanner_name |-> scanner_name, category |-> category, success |-> success,
     findings |-> findings, duration_ms |-> duration_ms, raw_data |-> raw_data,
     error |-> error, timestamp |-> timestamp]

\* sum(1 for f in findings if f.severity == sev)
RECURSIVE CountSeverity(_, _)
CountSeverity(findings, sev) ==
    IF findings = <<>> THEN 0
    ELSE (IF Head(findings).severity = sev THEN 1 ELSE 0) + CountSeverity(Tail(findings), sev)

\* ScanResult.critical_count
ResultCriticalCount(result) == CountSeverity(result.findings, CRITICAL)

\* warning_count as it would be if it had been copied from critical_count unchanged
ResultWarningCountOfCritical(result) == CountSeverity(result.findings, CRITICAL)

\* ScanResult.warning_count
ResultWarningCount(result) == CountSeverity(result.findings, WARNING)

\* ScanResult.pass_count
ResultPassCount(result) == CountSeverity(result.findings, PASS)

\* DiagnosticsReport(): results empty, start_time now, end_time None
DiagnosticsReport(now) == [results |-> <<>>, start_time |-> now, end_time |-> None]

\* add_result as it would be if it appended the result twice
AddResultTwice(report, result) ==
    [report EXCEPT !.results = Append(Append(@, result), result)]

\* add_result as it would be if it kept only the results of successful scans
AddResultDropsFailed(report, result) ==
    IF result.success THEN [report EXCEPT !.results = Append(@, result)] ELSE report

\* DiagnosticsReport.add_result
AddResult(report, result) == [report EXCEPT !.results = Append(@, result)]

\* finalize as it would be if it stamped the end time only once
FinalizeKeepsFirst(report, now) ==
    IF report.end_time = None THEN [report EXCEPT !.end_time = Some(now)] ELSE report

\* DiagnosticsReport.finalize
Finalize(report, now) == [report EXCEPT !.end_time = Some(now)]

\* DiagnosticsReport.total_duration_ms, with the times in ticks of one second
RECURSIVE SumDuration(_)
SumDuration(results) ==
    IF results = <<>> THEN 0 ELSE Head(results).duration_ms + SumDuration(Tail(results))
\* total_duration_ms as it would be if it always summed the results' durations
TotalDurationMsOfResults(report) == SumDuration(report.results)

TotalDurationMs(report) ==
    IF report.end_time # None
    THEN (report.end_time[1] - report.start_time) * 1000
    ELSE SumDuration(report.results)

\* DiagnosticsReport.critical_count: sum(r.critical_count for r in self.results)
RECURSIVE SumCritical(_)
SumCritical(results) ==
    IF results = <<>> THEN 0 ELSE ResultCriticalCount(Head(results)) + SumCritical(Tail(results))
CriticalCount(report) == SumCritical(report.results)

\* DiagnosticsReport.warning_count
RECURSIVE SumWarning(_)
SumWarning(results) ==
    IF results = <<>> THEN 0 ELSE ResultWarningCount(Head(results)) + SumWarning(Tail(results))
WarningCount(report) == SumWarning(report.results)

\* DiagnosticsReport.pass_count
RECURSIVE SumPass(_)
SumPass(results) ==
    IF results = <<>> THEN 0 ELSE ResultPassCount(Head(results)) + SumPass(Tail(results))
PassCount(report) == SumPass(report.results)

-----------------------------------------------------------------------------
(* scanner.py *)

\* Scanner instances an engine is given: the metadata each subclass of
\* BaseScanner declares (name, category, requires_admin, dependencies).
ExampleScanners == <<
    [name |-> <<"C", "P", "U">>, category |-> "hardware",
     requires_admin |-> FALSE, dependencies |-> <<"psutil">>],
    [name |-> <<"c", "p", "u">>, category |-> "registry",
     requires_admin |-> TRUE, dependencies |-> <<>>],
    [name |-> <<"D", "i", "s", "k", " ", "U", "s", "a", "g", "e">>, category |-> "hardware",
     requires_admin |-> FALSE, dependencies |-> <<>>],
    [name |-> <<"W", "i", "F", "i">>, category |-> "network",
     requires_admin |-> FALSE, dependencies |-> <<>>] >>

\* get_all_scanners(): the metadata of the scanners of the repository, in the
\* order of the list
GetAllScanners == <<
    [name |-> <<"C", "P", "U">>, category |-> "hardware",
     requires_admin |-> FALSE, dependencies |-> <<"psutil">>],
    [name |-> <<"G", "P", "U">>, category |-> "hardware",
     requires_admin |-> FALSE, dependencies |-> <<>>],
    [name |-> <<"M", "e", "m", "o", "r", "y">>, category |-> "hardware",
     requires_admin |-> FALSE, dependencies |-> <<"psutil">>],
    [name |-> <<"S", "t", "o", "r", "a", "g", "e">>, category |-> "hardware",
     requires_admin |-> FALSE, dependencies |-> <<"psutil">>],
    [name |-> <<"B", "a", "t", "t", "e", "r", "y">>, category |-> "hardware",
     requires_admin |-> FALSE, dependencies |-> <<"psutil">>],
    [name |-> <<"M", "o", "t", "h", "e", "r", "b", "o", "a", "r", "d">>, category |-> "hardware",
     requires_admin |-> FALSE, dependencies |-> <<>>],
    [name |-> <<"N", "e", "t", "w", "o", "r", "k", " ", "A", "d", "a", "p", "t", "e", "r", "s">>, category |-> "hardware",
     requires_admin |-> FALSE, dependencies |-> <<"psutil">>],
    [name |-> <<"P", "e", "r", "i", "p", "h", "e", "r", "a", "l", "s">>, category |-> "hardware",
     requires_admin |-> FALSE, dependencies |-> <<>>],
    [name |-> <<"A", "n", "t", "i", "v", "i", "r", "u", "s">>, category |-> "security",
     requires_admin |-> FALSE, dependencies |-> <<>>],
    [name |-> <<"F", "i", "r", "e", "w", "a", "l", "l">>, category |-> "security",
     requires_admin |-> FALSE, dependencies |-> <<>>],
    [name |-> <<"W", "i", "n", "d", "o", "w", "s", " ", "U", "p", "d", "a", "t", "e">>, category |-> "security",
     requires_admin |-> FALSE, dependencies |-> <<>>],
    [name |-> <<"O", "p", "e", "n", " ", "P", "o", "r", "t", "s">>, category |-> "security",
     requires_admin |-> FALSE, dependencies |-> <<"psutil">>],
    [name |-> <<"P", "r", "o", "c", "e", "s", "s", "e", "s">>, category |-> "security",
     requires_admin |-> FALSE, dependencies |-> <<"psutil">>],
    [name |-> <<"S", "t", "a", "r", "t", "u", "p", " ", "P", "r", "o", "g", "r", "a", "m", "s">>, category |-> "security",
     requires_admin |-> FALSE, dependencies |-> <<>>],
    [name |-> <<"S", "e", "r", "v", "i", "c", "e", "s">>, category |-> "security",
     requires_admin |-> FALSE, dependencies |-> <<>>],
    [name |-> <<"U", "s", "e", "r", " ", "A", "c", "c", "o", "u", "n", "t", "s">>, category |-> "security",
     requires_admin |-> FALSE, dependencies |-> <<>>],
    [name |-> <<"B", "i", "t", "L", "o", "c", "k", "e", "r">>, category |-> "security",
     requires_admin |-> TRUE, dependencies |-> <<>>],
    [name |-> <<"S", "e", "c", "u", "r", "e", " ", "B", "o", "o", "t">>, category |-> "security",
     requires_admin |-> FALSE, dependencies |-> <<>>],
    [name |-> <<"U", "A", "C">>, category |-> "security",
     requires_admin |-> FALSE, dependencies |-> <<>>],
    [name |-> <<"P", "a", "s", "s", "w", "o", "r", "d", " ", "P", "o", "l", "i", "c", "y">>, category |-> "security",
     requires_admin |-> FALSE, dependencies |-> <<>>],
    [name |-> <<"E", "v", "e", "n", "t", " ", "L", "o", "g">>, category |-> "security",
     requires_admin |-> TRUE, dependencies |-> <<>>],
    [name |-> <<"C", "o", "n", "n", "e", "c", "t", "i", "v", "i", "t", "y">>, category |-> "network",
     requires_admin |-> FALSE, dependencies |-> <<>>],
    [name |-> <<"W", "i", "F", "i">>, category |-> "network",
     requires_admin |-> FALSE, dependencies |-> <<>>],
    [name |-> <<"D", "N", "S">>, category |-> "network",
     requires_admin |-> FALSE, dependencies |-> <<>>],
    [name |-> <<"S", "p", "e", "e", "d", " ", "T", "e", "s", "t">>, category |-> "network",
     requires_admin |-> FALSE, dependencies |-> <<>>],
    [name |-> <<"O", "S", " ", "I", "n", "f", "o">>, category |-> "system",
     requires_admin |-> FALSE, dependencies |-> <<>>] >>

\* The scanner instances that exist: those above, then those of get_all_scanners()
ScannerDefs == ExampleScanners \o GetAllScanners

\* The instances the engine is given one by one, and those of get_all_scanners()
Scanners == DOMAIN ExampleScanners
StandardScanners == DOMAIN ScannerDefs \ Scanners

\* scanner.name, scanner.category
Name(s) == Text(ScannerDefs[s].name)
Category(s) == ScannerDefs[s].category

\* The modules a dependency name can refer to
Modules == {"psutil"}

\* What one call of a scanner's scan() does: it never returns (hangs), it
\* raises Exception(*args), or it returns a ScanResult with the given success
\* and error, whose findings have the given severities, whose raw_data is the
\* given dict, which it builds created ticks after run() began and whose
\* duration_ms it set itself; the call of run() around it takes elapsed ticks of
\* the clock.
ScanOutcomes == {
    [hangs |-> FALSE, raises |-> FALSE, args |-> <<>>, success |-> TRUE, error |-> None,
     severities |-> <<CRITICAL, WARNING, PASS, CRITICAL, INFO, UNKNOWN>>,
     duration_ms |-> 999999, elapsed |-> 1, raw_data |-> << <<"cores", 6>> >>, created |-> 0],
    [hangs |-> FALSE, raises |-> TRUE, args |-> <<>>, success |-> TRUE, error |-> None,
     severities |-> <<>>, duration_ms |-> 0, elapsed |-> 0, raw_data |-> <<>>, created |-> 0],
    [hangs |-> FALSE, raises |-> TRUE, args |-> <<"boom">>, success |-> TRUE, error |-> None,
     severities |-> <<>>, duration_ms |-> 0, elapsed |-> 2, raw_data |-> <<>>, created |-> 0] }

\* Results _create_result(success, findings, raw_data, error) can build and a
\* scan() can return: the success without an error of ScanOutcomes, a failure
\* without an error, a success with one
AnyScanOutcomes == {o \in ScanOutcomes : ~o.raises} \cup {
    [hangs |-> FALSE, raises |-> FALSE, args |-> <<>>, success |-> FALSE, error |-> None,
     severities |-> <<>>, duration_ms |-> 0, elapsed |-> 1, raw_data |-> <<>>, created |-> 0],
    [hangs |-> FALSE, raises |-> FALSE, args |-> <<>>, success |-> TRUE, error |-> Some("partial"),
     severities |-> <<WARNING>>, duration_ms |-> 0, elapsed |-> 1,
     raw_data |-> << <<"partial", 1>> >>, created |-> 1] }

\* A scan() that never returns
HangOutcomes == {
    [hangs |-> TRUE, raises |-> FALSE, args |-> <<>>, success |-> TRUE, error |-> None,
     severities |-> <<>>, duration_ms |-> 0, elapsed |-> 0, raw_data |-> <<>>, created |-> 0] }

\* What __import__(dep) does in _check_dependencies: it returns, it raises
\* ImportError, or it raises another Exception (the module fails while it loads)
ImportOutcomes == {"ok", "ImportError", "Exception"}

\* The arguments of the Exception a module raises while it loads
ImportExceptionArgs == <<"import failed">>

\* The modules that import, given what the import of each module does
Importable(imports) == {m \in DOMAIN imports : imports[m] = "ok"}

\* BaseScanner.__init__
NewScannerState == [is_admin_ |-> FALSE, start_time_ |-> 0]

\* BaseScanner.set_admin_status
SetAdminStatus(st, admin) == [st EXCEPT !.is_admin_ = admin]

\* _check_dependencies as it would be if one dependency that imports were enough
CheckDependenciesAny(s, importable) ==
    \E k \in DOMAIN ScannerDefs[s].dependencies : ScannerDefs[s].dependencies[k] \in importable

\* BaseScanner._check_dependencies: every dependency imports
CheckDependencies(s, importable) ==
    \A k \in DOMAIN ScannerDefs[s].dependencies : ScannerDefs[s].dependencies[k] \in importable

\* _check_dependencies raises: the loop reaches a dependency whose import
\* raises an Exception that is not an ImportError
RECURSIVE ImportsRaise(_, _)
ImportsRaise(deps, imports) ==
    IF deps = <<>> THEN FALSE
    ELSE IF imports[Head(deps)] = "ok" THEN ImportsRaise(Tail(deps), imports)
    ELSE imports[Head(deps)] = "Exception"

\* is_available raises instead of returning: the admin check lets the call
\* go on to _check_dependencies, and that raises
IsAvailableRaises(s, st, imports) ==
    /\ ~(ScannerDefs[s].requires_admin /\ ~st.is_admin_)
    /\ ImportsRaise(ScannerDefs[s].dependencies, imports)

\* is_available as it would be without the check of the admin rights
IsAvailableIgnoresAdmin(s, st, importable) == CheckDependencies(s, importable)

\* BaseScanner.is_available
IsAvailable(s, st, importable) ==
    IF ScannerDefs[s].requires_admin /\ ~st.is_admin_
    THEN FALSE
    ELSE CheckDependencies(s, importable)

\* BaseScanner._elapsed_ms at time now
ElapsedMs(st, now) == (now - st.start_time_) * 1000

\* BaseScanner._finding
Finding(s, severity) == [severity |-> severity, category |-> Category(s), component |-> Name(s)]

\* scan() as it would be if an error were kept only in a failed result
ScanClearsError(s, out, now) ==
    ScanResult(Name(s), Category(s), out.success,
               [k \in DOMAIN out.severities |-> Finding(s, out.severities[k])],
               out.duration_ms, out.raw_data, IF out.success THEN None ELSE out.error,
               now + out.created)

\* The ScanResult a scan() call builds with _create_result and then returns,
\* its success, error and duration_ms being whatever the scanner put there
Scan(s, out, now) ==
    ScanResult(Name(s), Category(s), out.success,
               [k \in DOMAIN out.severities |-> Finding(s, out.severities[k])],
               out.duration_ms, out.raw_data, out.error, now + out.created)

NotAvailableError == "Scanner not available (missing dependencies or admin rights)"

\* The ScanResult run() returns when is_available() is false
NotAvailableResult(s, st, now) ==
    ScanResult(Name(s), Category(s), FALSE, <<>>, ElapsedMs(st, now), <<>>,
               Some(NotAvailableError), now)

\* The handler's result as it would be if it did not record the exception
ExceptResultNoError(s, st, now, args) ==
    ScanResult(Name(s), Category(s), FALSE, <<>>, ElapsedMs(st, now), <<>>, None, now)

\* The ScanResult run() returns from its handler, except Exception as e,
\* for an exception constructed with args
ExceptResult(s, st, now, args) ==
    ScanResult(Name(s), Category(s), FALSE, <<>>, ElapsedMs(st, now), <<>>,
               Some(ExceptionStr(args)), now)

\* run() as it would be if it built a new result from the scanner's, with
\* the time, and without the raw data
SetDurationRebuilds(result, st, now) ==
    [result EXCEPT !.duration_ms = ElapsedMs(st, now), !.raw_data = <<>>, !.timestamp = now]

\* run() as it would be if it left the duration_ms of the scanner's result alone
SetDurationKeepsOwn(result, st, now) == result

\* result.duration_ms = self._elapsed_ms()
SetDuration(result, st, now) == [result EXCEPT !.duration_ms = ElapsedMs(st, now)]

\* run() as it would be if is_available() were called before the try block
RunAvailabilityOutsideTry(s, st, now, imports, out) ==
    LET started == [st EXCEPT !.start_time_ = now]
        end == now + out.elapsed
    IN  IF IsAvailableRaises(s, started, imports)
        THEN [st |-> started, raised |-> TRUE, hangs |-> FALSE,
              available |-> "raised", scan_called |-> FALSE,
              result |-> ExceptResult(s, started, end, ImportExceptionArgs)]
        ELSE IF ~IsAvailable(s, started, Importable(imports))
        THEN [st |-> started, raised |-> FALSE, hangs |-> FALSE,
              available |-> "false", scan_called |-> FALSE,
              result |-> NotAvailableResult(s, started, end)]
        ELSE IF out.hangs
        THEN [st |-> started, raised |-> FALSE, hangs |-> TRUE,
              available |-> "true", scan_called |-> TRUE,
              result |-> NotAvailableResult(s, started, end)]
        ELSE IF out.raises
        THEN [st |-> started, raised |-> FALSE, hangs |-> FALSE,
              available |-> "true", scan_called |-> TRUE,
              result |-> ExceptResult(s, started, end, out.args)]
        ELSE [st |-> started, raised |-> FALSE, hangs |-> FALSE,
              available |-> "true", scan_called |-> TRUE,
              result |-> SetDuration(Scan(s, out, now), started, end)]

\* run() as it would be without its handler: an exception of scan() leaves run()
RunWithoutHandler(s, st, now, imports, out) ==
    LET started == [st EXCEPT !.start_time_ = now]
        end == now + out.elapsed
    IN  IF IsAvailableRaises(s, started, imports)
        THEN [st |-> started, raised |-> FALSE, hangs |-> FALSE,
              available |-> "raised", scan_called |-> FALSE,
              result |-> ExceptResult(s, started, end, ImportExceptionArgs)]
        ELSE IF ~IsAvailable(s, started, Importable(imports))
        THEN [st |-> started, raised |-> FALSE, hangs |-> FALSE,
              available |-> "false", scan_called |-> FALSE,
              result |-> NotAvailableResult(s, started, end)]
        ELSE IF out.hangs
        THEN [st |-> started, raised |-> FALSE, hangs |-> TRUE,
              available |-> "true", scan_called |-> TRUE,
              result |-> NotAvailableResult(s, started, end)]
        ELSE IF out.raises
        THEN [st |-> started, raised |-> TRUE, hangs |-> FALSE,
              available |-> "true", scan_called |-> TRUE,
              result |-> ExceptResult(s, started, end, out.args)]
        ELSE [st |-> started, raised |-> FALSE, hangs |-> FALSE,
              available |-> "true", scan_called |-> TRUE,
              result |-> SetDuration(Scan(s, out, now), started, end)]

\* BaseScanner.run, entered at time now with the instance state st; imports
\* says what the import of each module does and out what scan() does; the
\* call ends at time now + out.elapsed.  The value is what the call does:
\*   st           the instance state it leaves
\*   hangs        TRUE when the call never returns (scan() hangs)
\*   raised       TRUE when an exception leaves run(), FALSE when it returns
\*   result       the ScanResult it returns (of no use when it hangs or raises)
\*   available    what is_available() did: "true", "false" or "raised"
\*   scan_called  whether scan() was called
Run(s, st, now, imports, out) ==
    LET started == [st EXCEPT !.start_time_ = now]
        end == now + out.elapsed
    IN  IF IsAvailableRaises(s, started, imports)
        THEN [st |-> started, raised |-> FALSE, hangs |-> FALSE,
              available |-> "raised", scan_called |-> FALSE,
              result |-> ExceptResult(s, started, end, ImportExceptionArgs)]
        ELSE IF ~IsAvailable(s, started, Importable(imports))
        THEN [st |-> started, raised |-> FALSE, hangs |-> FALSE,
              available |-> "false", scan_called |-> FALSE,
              result |-> NotAvailableResult(s, started, end)]
        ELSE IF out.hangs
        THEN [st |-> started, raised |-> FALSE, hangs |-> TRUE,
              available |-> "true", scan_called |-> TRUE,
              result |-> NotAvailableResult(s, started, end)]
        ELSE IF out.raises
        THEN [st |-> started, raised |-> FALSE, hangs |-> FALSE,
              available |-> "true", scan_called |-> TRUE,
              result |-> ExceptResult(s, started, end, out.args)]
        ELSE [st |-> started, raised |-> FALSE, hangs |-> FALSE,
              available |-> "true", scan_called |-> TRUE,
              result |-> SetDuration(Scan(s, out, now), started, end)]

\* The first statement of run(), at time now: self._start_time = time.perf_counter()
RunStart(st, now) == [st EXCEPT !.start_time_ = now]

\* The rest of a run() call that began at time begun and ends at time now,
\* the instance state being st when the call ends: _elapsed_ms() reads
\* self._start_time from st
RunFinish(s, st, begun, now, imports, out) ==
    IF IsAvailableRaises(s, st, imports)
    THEN ExceptResult(s, st, now, ImportExceptionArgs)
    ELSE IF ~IsAvailable(s, st, Importable(imports))
    THEN NotAvailableResult(s, st, now)
    ELSE IF out.raises
    THEN ExceptResult(s, st, now, out.args)
    ELSE SetDuration(Scan(s, out, begun), st, now)

-----------------------------------------------------------------------------
(* engine.py *)

\* ScanEngine.MODES; a mode maps to Some(allow-list) or to None
MODES == [
    quick |-> Some(<<"cpu", "memory", "disk_usage", "antivirus", "firewall">>),
    full |-> None,
    hardware |-> Some(<<"cpu", "gpu", "memory", "storage", "battery", "motherboard",
                        "network_adapters", "peripherals">>),
    security |-> Some(<<"antivirus", "firewall", "windows_update", "ports", "processes",
                        "startup", "services", "registry", "users", "bitlocker",
                        "secure_boot", "uac", "password_policy", "event_log">>),
    network |-> Some(<<"network_adapters", "connectivity", "wifi", "dns", "speed_test">>) ]

\* The mode strings run_scan is called with: the keys of MODES and one other string
ModeNames == DOMAIN MODES \cup {"totally-unknown-mode"}

\* dict.get(mode): the value, or None for a missing key
ModesGet(m) == IF m \in DOMAIN MODES THEN MODES[m] ELSE None

\* scanner.name.lower().replace(" ", "_")
NormalizedKey(name) == Text(StrReplace(StrLower(name), " ", "_"))

\* The assignment as it would be if a key that is there kept its scanner
\* (dict.setdefault)
DictSetKeepsFirst(dict, key, value) ==
    IF \E k \in DOMAIN dict : dict[k].key = key
    THEN dict
    ELSE Append(dict, [key |-> key, scanner |-> value])

\* The assignment as it would be on a mapping that moves a key that is set
\* again to the end
DictSetMovesToEnd(dict, key, value) ==
    Append(SelectSeq(dict, LAMBDA item : item.key # key), [key |-> key, scanner |-> value])

\* self._scanners[key] = scanner on an insertion-ordered dict: a new key goes to
\* the end, an existing key keeps its place and gets the new value
DictSet(dict, key, value) ==
    IF \E k \in DOMAIN dict : dict[k].key = key
    THEN [k \in DOMAIN dict |-> IF dict[k].key = key THEN [key |-> key, scanner |-> value] ELSE dict[k]]
    ELSE Append(dict, [key |-> key, scanner |-> value])

\* get_scanners_for_mode as it would be if every mode were the full mode
GetScannersForModeFull(dict, m) == [k \in DOMAIN dict |-> dict[k].scanner]

\* get_scanners_for_mode as it would be if it matched the keys only
GetScannersForModeByKey(dict, m) ==
    LET allowed == ModesGet(m)
    IN  IF allowed = None
        THEN [k \in DOMAIN dict |-> dict[k].scanner]
        ELSE LET matching == SelectSeq(dict, LAMBDA item : InList(item.key, allowed[1]))
             IN  [k \in DOMAIN matching |-> matching[k].scanner]

\* ScanEngine.get_scanners_for_mode
GetScannersForMode(dict, m) ==
    LET allowed == ModesGet(m)
    IN  IF allowed = None
        THEN [k \in DOMAIN dict |-> dict[k].scanner]
        ELSE LET matching == SelectSeq(dict, LAMBDA item :
                     InList(item.key, allowed[1]) \/ InList(Category(item.scanner), allowed[1]))
             IN  [k \in DOMAIN matching |-> matching[k].scanner]

\* The progress call as it would be if it counted the scanners from 1
ProgressCallFromOne(current, n, label) == [current |-> current + 1, total |-> n, label |-> label]

\* progress_callback(current, total, scanner_name)
ProgressCall(current, n, label) == [current |-> current, total |-> n, label |-> label]

-----------------------------------------------------------------------------
(* The state machine *)

\* ScanEngine(is_admin) with either privilege, and one instance of every scanner class
Init ==
    /\ is_admin \in BOOLEAN
    /\ scanners_ = <<>>
    /\ scanner_state = [s \in Scanners |-> NewScannerState]
    /\ report_ = None
    /\ pc = "idle"
    /\ mode = ""
    /\ progress_callback = FALSE
    /\ scanners = <<>>
    /\ total = 0
    /\ i = 0
    /\ returned = None
    /\ clock = 0
    /\ register_log = <<>>
    /\ progress_calls = <<>>
    /\ run_log = <<>>

\* ScanEngine.register_scanner(scanner)
RegisterScanner(s) ==
    /\ pc = "idle"
    /\ Len(register_log) < MaxRegisters
    /\ scanner_state' = [scanner_state EXCEPT ![s] = SetAdminStatus(@, is_admin)]
    /\ scanners_' = DictSet(scanners_, NormalizedKey(ScannerDefs[s].name), s)
    /\ register_log' = Append(register_log, s)
    /\ UNCHANGED <<is_admin, report_, pc, mode, progress_callback, scanners, total, i,
                   returned, clock, progress_calls, run_log>>

\* The start of run_scan as it would be if it took the selected scanners out
\* of the registry
RunScanStartTakesScanners(m, cb) ==
    /\ pc = "idle"
    /\ mode' = m
    /\ progress_callback' = cb
    /\ report_' = Some(DiagnosticsReport(clock))
    /\ scanners' = GetScannersForMode(scanners_, m)
    /\ scanners_' = SelectSeq(scanners_, LAMBDA item :
                        \A k \in DOMAIN scanners' : scanners'[k] # item.scanner)
    /\ total' = Len(scanners')
    /\ i' = 0
    /\ pc' = "loop"
    /\ UNCHANGED <<is_admin, scanner_state, returned, clock, register_log,
                   progress_calls, run_log>>

\* run_scan(m, cb), up to the for statement: a new report, the scanners of the mode
RunScanStart(m, cb) ==
    /\ pc = "idle"
    /\ mode' = m
    /\ progress_callback' = cb
    /\ report_' = Some(DiagnosticsReport(clock))
    /\ scanners' = GetScannersForMode(scanners_, m)
    /\ total' = Len(scanners')
    /\ i' = 0
    /\ pc' = "loop"
    /\ UNCHANGED <<is_admin, scanners_, scanner_state, returned, clock, register_log,
                   progress_calls, run_log>>

\* The loop as it would be if it ran the scanner without the progress call
RunScanProgressSkipsCall ==
    /\ pc = "loop"
    /\ i < total
    /\ pc' = "run"
    /\ UNCHANGED <<is_admin, scanners_, scanner_state, report_, mode, progress_callback,
                   scanners, total, i, returned, clock, register_log, run_log, progress_calls>>

\* The loop takes the next scanner and reports it to the progress callback
RunScanProgress ==
    /\ pc = "loop"
    /\ i < total
    /\ progress_calls' =
           IF progress_callback
           THEN Append(progress_calls, ProgressCall(i, total, Name(scanners[i + 1])))
           ELSE progress_calls
    /\ pc' = "run"
    /\ UNCHANGED <<is_admin, scanners_, scanner_state, report_, mode, progress_callback,
                   scanners, total, i, returned, clock, register_log, run_log>>

\* The step as it would be if run_scan gave up a run() that hangs and went on
RunScannerGivesUpOnHang(imports, out) ==
    /\ pc = "run"
    /\ LET s == scanners[i + 1]
           r == Run(s, scanner_state[s], clock, imports, out)
       IN  /\ scanner_state' = [scanner_state EXCEPT ![s] = r.st]
           /\ clock' = clock + out.elapsed
           /\ run_log' = Append(run_log,
                  [scanner |-> s, index |-> i, started |-> clock, ended |-> clock',
                   available |-> r.available, scan_called |-> r.scan_called,
                   hung |-> r.hangs, out |-> out])
           /\ IF r.raised
              THEN /\ pc' = "raised"
                   /\ UNCHANGED <<report_, i>>
              ELSE /\ report_' = Some(AddResult(report_[1], r.result))
                   /\ i' = i + 1
                   /\ pc' = "loop"
    /\ UNCHANGED <<is_admin, scanners_, mode, progress_callback, scanners, total,
                   returned, register_log, progress_calls>>

\* result = scanner.run(); self._report.add_result(result).  run_scan has no
\* handler of its own: an exception that left run() would leave run_scan.
\* A run() that hangs leaves run_scan inside the call for ever.
RunScanner(imports, out) ==
    /\ pc = "run"
    /\ LET s == scanners[i + 1]
           r == Run(s, scanner_state[s], clock, imports, out)
       IN  /\ scanner_state' = [scanner_state EXCEPT ![s] = r.st]
           /\ clock' = clock + out.elapsed
           /\ run_log' = Append(run_log,
                  [scanner |-> s, index |-> i, started |-> clock, ended |-> clock',
                   available |-> r.available, scan_called |-> r.scan_called,
                   hung |-> r.hangs, out |-> out])
           /\ IF r.hangs
              THEN /\ pc' = "hung"
                   /\ UNCHANGED <<report_, i>>
              ELSE IF r.raised
              THEN /\ pc' = "raised"
                   /\ UNCHANGED <<report_, i>>
              ELSE /\ report_' = Some(AddResult(report_[1], r.result))
                   /\ i' = i + 1
                   /\ pc' = "loop"
    /\ UNCHANGED <<is_admin, scanners_, mode, progress_callback, scanners, total,
                   returned, register_log, progress_calls>>

\* The scanners of Spec return or raise what ScanOutcomes lists
RunScanRunScanner ==
    \E imports \in [Modules -> ImportOutcomes], out \in ScanOutcomes : RunScanner(imports, out)

\* The end of the loop as it would be without the call of finalize()
RunScanFinalizeSkipped ==
    /\ pc = "loop"
    /\ i = total
    /\ pc' = "complete"
    /\ UNCHANGED <<is_admin, scanners_, scanner_state, mode, progress_callback, scanners,
                   total, i, returned, clock, register_log, progress_calls, run_log, report_>>

\* The loop is over: self._report.finalize()
RunScanFinalize ==
    /\ pc = "loop"
    /\ i = total
    /\ report_' = Some(Finalize(report_[1], clock))
    /\ pc' = "complete"
    /\ UNCHANGED <<is_admin, scanners_, scanner_state, mode, progress_callback, scanners,
                   total, i, returned, clock, register_log, progress_calls, run_log>>

\* The terminal progress call, and return self._report
RunScanReturn ==
    /\ pc = "complete"
    /\ progress_calls' =
           IF progress_callback
           THEN Append(progress_calls, ProgressCall(total, total, "Complete"))
           ELSE progress_calls
    /\ returned' = report_
    /\ pc' = "done"
    /\ UNCHANGED <<is_admin, scanners_, scanner_state, report_, mode, progress_callback,
                   scanners, total, i, clock, register_log, run_log>>

Next ==
    \/ \E s \in Scanners : RegisterScanner(s)
    \/ \E m \in ModeNames, cb \in BOOLEAN : RunScanStart(m, cb)
    \/ RunScanProgress
    \/ RunScanRunScanner
    \/ RunScanFinalize
    \/ RunScanReturn

Spec == Init /\ [][Next]_vars

\* run_scan is one thread of control: once called, it takes its next step as
\* long as it has one (every run() of the model returns)
RunScanStep == RunScanProgress \/ RunScanRunScanner \/ RunScanFinalize \/ RunScanReturn
FairSpec == Spec /\ WF_vars(RunScanStep)

-----------------------------------------------------------------------------
(* A progress callback that may raise *)

\* progress_callback(i, total, scanner.name) raises: run_scan has no handler
\* around the call, the exception leaves run_scan
RunScanProgressRaises ==
    /\ pc = "loop"
    /\ i < total
    /\ progress_callback
    /\ progress_calls' = Append(progress_calls, ProgressCall(i, total, Name(scanners[i + 1])))
    /\ pc' = "callback_raised"
    /\ UNCHANGED <<is_admin, scanners_, scanner_state, report_, mode, progress_callback,
                   scanners, total, i, returned, clock, register_log, run_log>>

\* progress_callback(total, total, "Complete") raises: run_scan does not return
RunScanReturnRaises ==
    /\ pc = "complete"
    /\ progress_callback
    /\ progress_calls' = Append(progress_calls, ProgressCall(total, total, "Complete"))
    /\ pc' = "callback_raised"
    /\ UNCHANGED <<is_admin, scanners_, scanner_state, report_, mode, progress_callback,
                   scanners, total, i, returned, clock, register_log, run_log>>

CallbackNext ==
    \/ Next
    \/ RunScanProgressRaises
    \/ RunScanReturnRaises

CallbackSpec == Init /\ [][CallbackNext]_vars

-----------------------------------------------------------------------------
(* Scanners whose scan() returns any result _create_result can build *)

RunScanRunAnyScanner ==
    \E imports \in [Modules -> ImportOutcomes], out \in AnyScanOutcomes : RunScanner(imports, out)

AnyNext ==
    \/ \E s \in Scanners : RegisterScanner(s)
    \/ \E m \in ModeNames, cb \in BOOLEAN : RunScanStart(m, cb)
    \/ RunScanProgress
    \/ RunScanRunAnyScanner
    \/ RunScanFinalize
    \/ RunScanReturn

AnySpec == Init /\ [][AnyNext]_vars

-----------------------------------------------------------------------------
(* Scanners whose scan() may never return *)

\* What a scan() does here: it returns, it raises, or it hangs
HangScanOutcomes == {o \in ScanOutcomes : o.args = <<>>} \cup HangOutcomes

RunScanRunHangingScanner ==
    \E imports \in [Modules -> ImportOutcomes], out \in HangScanOutcomes : RunScanner(imports, out)

HangNext ==
    \/ \E s \in Scanners : RegisterScanner(s)
    \/ \E m \in ModeNames, cb \in BOOLEAN : RunScanStart(m, cb)
    \/ RunScanProgress
    \/ RunScanRunHangingScanner
    \/ RunScanFinalize
    \/ RunScanReturn

HangSpec == Init /\ [][HangNext]_vars

\* run_scan is one thread of control: it takes its next step as long as it
\* has one; inside a scan() that hangs it has none
HangRunScanStep == RunScanProgress \/ RunScanRunHangingScanner \/ RunScanFinalize \/ RunScanReturn

FairHangSpec == HangSpec /\ WF_vars(HangRunScanStep)

-----------------------------------------------------------------------------
(* Two ScanEngine objects that are given the same scanner instances.  Here
   is_admin, scanners_ and report_ hold the attribute of each engine, and one
   step is a whole run_scan call, whose scan() calls all return. *)

Engines == {1, 2}

\* What every scan() does here
EngineScanOutcome == CHOOSE o \in ScanOutcomes : ~o.raises

\* The scanner instances the two engines are given: one that requires admin
\* rights, one that has a dependency, one that needs nothing
EngineScanners == {s \in Scanners : ScannerDefs[s].category # "network"}

\* The mode the engines scan in
EngineModes == {"full"}

\* What the imports do here: a module imports or it is missing
EngineImportOutcomes == {"ok", "ImportError"}

\* ScanEngine(is_admin) twice
EngineInit ==
    /\ is_admin \in [Engines -> BOOLEAN]
    /\ scanners_ = [e \in Engines |-> <<>>]
    /\ scanner_state = [s \in Scanners |-> NewScannerState]
    /\ report_ = [e \in Engines |-> None]
    /\ pc = "idle"
    /\ mode = ""
    /\ progress_callback = FALSE
    /\ scanners = <<>>
    /\ total = 0
    /\ i = 0
    /\ returned = None
    /\ clock = 0
    /\ register_log = <<>>
    /\ progress_calls = <<>>
    /\ run_log = <<>>

\* engine e: register_scanner(s)
EngineRegisterScanner(e, s) ==
    /\ Len(register_log) < MaxEngineRegisters
    /\ scanner_state' = [scanner_state EXCEPT ![s] = SetAdminStatus(@, is_admin[e])]
    /\ scanners_' = [scanners_ EXCEPT ![e] = DictSet(@, NormalizedKey(ScannerDefs[s].name), s)]
    /\ register_log' = Append(register_log, [engine |-> e, scanner |-> s])
    /\ UNCHANGED <<is_admin, report_, pc, mode, progress_callback, scanners, total, i,
                   returned, clock, progress_calls, run_log>>

\* engine e: run_scan(m), from the call to the return, once for each engine;
\* the k-th selected scanner runs when the k - 1 before it have returned
EngineRunScan(e, m, imports) ==
    /\ report_[e] = None
    /\ LET selected == GetScannersForMode(scanners_[e], m)
           out == EngineScanOutcome
           runs == [k \in DOMAIN selected |->
                       Run(selected[k], scanner_state[selected[k]],
                           clock + (k - 1) * out.elapsed, imports, out)]
           results == [k \in DOMAIN selected |-> runs[k].result]
           end == clock + Len(selected) * out.elapsed
           report == Finalize([DiagnosticsReport(clock) EXCEPT !.results = results], end)
       IN  /\ scanners' = selected
           /\ total' = Len(selected)
           /\ i' = Len(selected)
           /\ scanner_state' = [s \in Scanners |->
                  IF \E k \in DOMAIN selected : selected[k] = s
                  THEN runs[CHOOSE k \in DOMAIN selected : selected[k] = s].st
                  ELSE scanner_state[s]]
           /\ run_log' = run_log \o [k \in DOMAIN selected |->
                  [engine |-> e, scanner |-> selected[k], index |-> k - 1,
                   started |-> clock + (k - 1) * out.elapsed,
                   ended |-> clock + k * out.elapsed,
                   available |-> runs[k].available, scan_called |-> runs[k].scan_called,
                   hung |-> FALSE, out |-> out, imports |-> imports]]
           /\ clock' = end
           /\ report_' = [report_ EXCEPT ![e] = Some(report)]
           /\ returned' = Some(report)
    /\ mode' = m
    /\ UNCHANGED <<is_admin, scanners_, pc, progress_callback, register_log, progress_calls>>

EngineNext ==
    \/ \E e \in Engines, s \in EngineScanners : EngineRegisterScanner(e, s)
    \/ \E e \in Engines, m \in EngineModes, imports \in [Modules -> EngineImportOutcomes] :
           EngineRunScan(e, m, imports)

EngineSpec == EngineInit /\ [][EngineNext]_vars

-----------------------------------------------------------------------------
(* One ScanEngine used for several calls, each of them one step.  Reports are
   objects: report_ is the sequence of the DiagnosticsReport objects made so
   far, self._report referring to the last of them, and returned is the
   sequence of the references (places in report_) run_scan has returned. *)

\* The modes of the calls
SessionModes == {"full", "hardware"}

\* The names run_single_scanner is called with: other spellings of the names
\* of scanners, and a name no scanner has
SingleNames == {
    <<"c", "P", "u">>,
    <<"D", "I", "S", "K", " ", "u", "s", "a", "g", "e">>,
    <<"G", "P", "U">> }

\* The key as it would be if the name were taken as it is spelled
SingleKeysAsSpelled == [name \in SingleNames |-> Text(name)]

\* key = scanner_name.lower().replace(" ", "_") for each of these names
SingleKeys == [name \in SingleNames |-> NormalizedKey(name)]

\* key = scanner.name.lower().replace(" ", "_") for each scanner
RegistryKeys == [s \in Scanners |-> NormalizedKey(ScannerDefs[s].name)]

\* self._report = DiagnosticsReport() as it would be if the engine kept the
\* report it has
ReuseReport(heap, now) ==
    IF heap = <<>> THEN Append(heap, DiagnosticsReport(now))
    ELSE [heap EXCEPT ![Len(heap)].end_time = None]

\* self._report = DiagnosticsReport(): a new object, to which self._report refers
NewReport(heap, now) == Append(heap, DiagnosticsReport(now))

\* self._scanners.get(key): the scanner under the key, or None
ScannersGet(dict, key) ==
    IF \E k \in DOMAIN dict : dict[k].key = key
    THEN Some(dict[CHOOSE k \in DOMAIN dict : dict[k].key = key].scanner)
    ELSE None

SessionInit ==
    /\ is_admin \in BOOLEAN
    /\ scanners_ = <<>>
    /\ scanner_state = [s \in Scanners |-> NewScannerState]
    /\ report_ = <<>>
    /\ pc = "idle"
    /\ mode = ""
    /\ progress_callback = FALSE
    /\ scanners = <<>>
    /\ total = 0
    /\ i = 0
    /\ returned = <<>>
    /\ clock = 0
    /\ register_log = <<>>
    /\ progress_calls = <<>>
    /\ run_log = <<>>

\* register_scanner(s)
SessionRegisterScanner(s) ==
    /\ Len(register_log) < MaxSessionRegisters
    /\ scanner_state' = [scanner_state EXCEPT ![s] = SetAdminStatus(@, is_admin)]
    /\ scanners_' = DictSet(scanners_, RegistryKeys[s], s)
    /\ register_log' = Append(register_log, s)
    /\ UNCHANGED <<is_admin, report_, pc, mode, progress_callback, scanners, total, i,
                   returned, clock, progress_calls, run_log>>

\* run_scan(m), from the call to the return
SessionRunScan(m, imports) ==
    /\ Len(run_log) < MaxCalls
    /\ LET selected == GetScannersForMode(scanners_, m)
           out == EngineScanOutcome
           runs == [k \in DOMAIN selected |->
                       Run(selected[k], scanner_state[selected[k]],
                           clock + (k - 1) * out.elapsed, imports, out)]
           end == clock + Len(selected) * out.elapsed
           heap == NewReport(report_, clock)
           ref == Len(heap)
           filled == [heap[ref] EXCEPT !.results = @ \o [k \in DOMAIN selected |-> runs[k].result]]
       IN  /\ scanners' = selected
           /\ total' = Len(selected)
           /\ i' = Len(selected)
           /\ scanner_state' = [s \in Scanners |->
                  IF \E k \in DOMAIN selected : selected[k] = s
                  THEN runs[CHOOSE k \in DOMAIN selected : selected[k] = s].st
                  ELSE scanner_state[s]]
           /\ clock' = end
           /\ report_' = [heap EXCEPT ![ref] = Finalize(filled, end)]
           /\ returned' = Append(returned, ref)
           /\ run_log' = Append(run_log,
                  [call |-> "run_scan", mode |-> m, selected |-> selected, ref |-> ref])
    /\ mode' = m
    /\ UNCHANGED <<is_admin, scanners_, pc, progress_callback, register_log, progress_calls>>

\* run_single_scanner(name)
SessionRunSingleScanner(name, imports) ==
    /\ Len(run_log) < MaxCalls
    /\ LET key == SingleKeys[name]
           scanner == ScannersGet(scanners_, key)
           out == EngineScanOutcome
       IN  IF scanner # None
           THEN LET r == Run(scanner[1], scanner_state[scanner[1]], clock, imports, out)
                IN  /\ scanner_state' = [scanner_state EXCEPT ![scanner[1]] = r.st]
                    /\ clock' = clock + out.elapsed
                    /\ run_log' = Append(run_log,
                           [call |-> "run_single_scanner", name |-> name, key |-> key,
                            ran |-> <<scanner[1]>>, started |-> clock, imports |-> imports,
                            value |-> Some(r.result)])
           ELSE /\ run_log' = Append(run_log,
                       [call |-> "run_single_scanner", name |-> name, key |-> key,
                        ran |-> <<>>, started |-> clock, imports |-> imports,
                        value |-> None])
                /\ UNCHANGED <<scanner_state, clock>>
    /\ UNCHANGED <<is_admin, scanners_, report_, pc, mode, progress_callback, scanners,
                   total, i, returned, register_log, progress_calls>>

SessionNext ==
    \/ \E s \in Scanners : SessionRegisterScanner(s)
    \/ \E m \in SessionModes, imports \in [Modules -> EngineImportOutcomes] :
           SessionRunScan(m, imports)
    \/ \E name \in SingleNames, imports \in [Modules -> EngineImportOutcomes] :
           SessionRunSingleScanner(name, imports)

SessionSpec == SessionInit /\ [][SessionNext]_vars

-----------------------------------------------------------------------------
(* Two run_scan calls on one ScanEngine that overlap: the calls of two
   threads, or a call made from inside a progress callback while another is
   under way.  The locals of run_scan (mode, scanners, total, i) and its
   position are kept per call; self._scanners and self._report belong to the
   engine and are shared.  report_ is the sequence of the DiagnosticsReport
   objects made so far, self._report referring to the last of them.  run_log
   records which call made each report and which call added each result. *)

\* The two callers of run_scan
Callers == {1, 2}

\* The modes of the overlapping calls
OverlapModes == {"full", "hardware"}

OverlapInit ==
    /\ is_admin \in BOOLEAN
    /\ scanners_ = <<>>
    /\ scanner_state = [s \in Scanners |-> NewScannerState]
    /\ report_ = <<>>
    /\ pc = [c \in Callers |-> "idle"]
    /\ mode = [c \in Callers |-> ""]
    /\ progress_callback = FALSE
    /\ scanners = [c \in Callers |-> <<>>]
    /\ total = [c \in Callers |-> 0]
    /\ i = [c \in Callers |-> 0]
    /\ returned = [c \in Callers |-> None]
    /\ clock = 0
    /\ register_log = <<>>
    /\ progress_calls = <<>>
    /\ run_log = <<>>

\* register_scanner(s), before any run_scan call
OverlapRegisterScanner(s) ==
    /\ \A c \in Callers : pc[c] = "idle"
    /\ Len(register_log) < MaxOverlapRegisters
    /\ scanner_state' = [scanner_state EXCEPT ![s] = SetAdminStatus(@, is_admin)]
    /\ scanners_' = DictSet(scanners_, RegistryKeys[s], s)
    /\ register_log' = Append(register_log, s)
    /\ UNCHANGED <<is_admin, report_, pc, mode, progress_callback, scanners, total, i,
                   returned, clock, progress_calls, run_log>>

\* Caller c enters run_scan(m): self._report = DiagnosticsReport();
\* scanners = self.get_scanners_for_mode(mode); total = len(scanners)
OverlapRunScanStart(c, m) ==
    /\ pc[c] = "idle"
    /\ register_log # <<>>
    /\ report_' = NewReport(report_, clock)
    /\ mode' = [mode EXCEPT ![c] = m]
    /\ scanners' = [scanners EXCEPT ![c] = GetScannersForMode(scanners_, m)]
    /\ total' = [total EXCEPT ![c] = Len(GetScannersForMode(scanners_, m))]
    /\ i' = [i EXCEPT ![c] = 0]
    /\ pc' = [pc EXCEPT ![c] = "loop"]
    /\ run_log' = Append(run_log,
           [call |-> c, op |-> "new", scanner |-> 0, ref |-> Len(report_) + 1])
    /\ UNCHANGED <<is_admin, scanners_, scanner_state, progress_callback, returned, clock,
                   register_log, progress_calls>>

\* One turn of caller c's loop: result = scanner.run();
\* self._report.add_result(result), on the report self._report refers to now
OverlapRunScanner(c, imports) ==
    /\ pc[c] = "loop"
    /\ i[c] < total[c]
    /\ LET s == scanners[c][i[c] + 1]
           r == Run(s, scanner_state[s], clock, imports, EngineScanOutcome)
           ref == Len(report_)
       IN  /\ scanner_state' = [scanner_state EXCEPT ![s] = r.st]
           /\ clock' = clock + EngineScanOutcome.elapsed
           /\ report_' = [report_ EXCEPT ![ref] = AddResult(@, r.result)]
           /\ run_log' = Append(run_log,
                  [call |-> c, op |-> "add", scanner |-> s, ref |-> ref])
    /\ i' = [i EXCEPT ![c] = @ + 1]
    /\ UNCHANGED <<is_admin, scanners_, pc, mode, progress_callback, scanners, total,
                   returned, register_log, progress_calls>>

\* Caller c is past its loop: self._report.finalize()
OverlapRunScanFinalize(c) ==
    /\ pc[c] = "loop"
    /\ i[c] = total[c]
    /\ report_' = [report_ EXCEPT ![Len(report_)] = Finalize(@, clock)]
    /\ pc' = [pc EXCEPT ![c] = "finalized"]
    /\ UNCHANGED <<is_admin, scanners_, scanner_state, mode, progress_callback, scanners,
                   total, i, returned, clock, register_log, progress_calls, run_log>>

\* Caller c: return self._report
OverlapRunScanReturn(c) ==
    /\ pc[c] = "finalized"
    /\ returned' = [returned EXCEPT ![c] = Some(Len(report_))]
    /\ pc' = [pc EXCEPT ![c] = "done"]
    /\ UNCHANGED <<is_admin, scanners_, scanner_state, report_, mode, progress_callback,
                   scanners, total, i, clock, register_log, progress_calls, run_log>>

OverlapNext ==
    \/ \E s \in Scanners : OverlapRegisterScanner(s)
    \/ \E c \in Callers, m \in OverlapModes : OverlapRunScanStart(c, m)
    \/ \E c \in Callers, imports \in [Modules -> EngineImportOutcomes] :
           OverlapRunScanner(c, imports)
    \/ \E c \in Callers : OverlapRunScanFinalize(c)
    \/ \E c \in Callers : OverlapRunScanReturn(c)

OverlapSpec == OverlapInit /\ [][OverlapNext]_vars

-----------------------------------------------------------------------------
(* Two run() calls on scanner instances that may overlap: two engines that
   were given the same scanner instance and scan at the same time.  Each
   caller makes one call; the call is two steps, its first statement and the
   rest, and time passes between them.  scanners holds the scanner of each
   call, run_log the times at which the call began and ended, and returned
   the ScanResult it returned. *)

SharedInit ==
    /\ is_admin = FALSE
    /\ scanners_ = <<>>
    /\ scanner_state = [s \in Scanners |-> NewScannerState]
    /\ report_ = None
    /\ pc = [c \in Callers |-> "idle"]
    /\ mode = ""
    /\ progress_callback = FALSE
    /\ scanners = [c \in Callers |-> <<>>]
    /\ total = 0
    /\ i = 0
    /\ returned = [c \in Callers |-> None]
    /\ clock = 0
    /\ register_log = <<>>
    /\ progress_calls = <<>>
    /\ run_log = [c \in Callers |-> [started |-> 0, ended |-> 0]]

\* Caller c enters s.run(): self._start_time = time.perf_counter()
SharedRunStart(c, s) ==
    /\ pc[c] = "idle"
    /\ scanner_state' = [scanner_state EXCEPT ![s] = RunStart(@, clock)]
    /\ scanners' = [scanners EXCEPT ![c] = <<s>>]
    /\ run_log' = [run_log EXCEPT ![c].started = clock]
    /\ pc' = [pc EXCEPT ![c] = "scan"]
    /\ UNCHANGED <<is_admin, scanners_, report_, mode, progress_callback, total, i,
                   returned, clock, register_log, progress_calls>>

\* Caller c's run() call does the rest and returns
SharedRunFinish(c, imports, out) ==
    /\ pc[c] = "scan"
    /\ LET s == scanners[c][1]
       IN  returned' = [returned EXCEPT ![c] =
               Some(RunFinish(s, scanner_state[s], run_log[c].started, clock, imports, out))]
    /\ run_log' = [run_log EXCEPT ![c].ended = clock]
    /\ pc' = [pc EXCEPT ![c] = "done"]
    /\ UNCHANGED <<is_admin, scanners_, scanner_state, report_, mode, progress_callback,
                   scanners, total, i, clock, register_log, progress_calls>>

\* Time passes
SharedTick ==
    /\ clock < MaxClock
    /\ clock' = clock + 1
    /\ UNCHANGED <<is_admin, scanners_, scanner_state, report_, pc, mode, progress_callback,
                   scanners, total, i, returned, register_log, progress_calls, run_log>>

SharedNext ==
    \/ \E c \in Callers, s \in Scanners : SharedRunStart(c, s)
    \/ \E c \in Callers, imports \in [Modules -> ImportOutcomes], out \in ScanOutcomes :
           SharedRunFinish(c, imports, out)
    \/ SharedTick

SharedSpec == SharedInit /\ [][SharedNext]_vars

-----------------------------------------------------------------------------
(* The engine of the command line: engine.register_scanners(get_all_scanners()),
   and the scanners it then selects for a mode *)

\* key = scanner.name.lower().replace(" ", "_") for the scanners of get_all_scanners()
StandardKeys == [s \in StandardScanners |-> NormalizedKey(ScannerDefs[s].name)]

\* ScanEngine(is_admin=admin_status)
StandardInit ==
    /\ is_admin \in BOOLEAN
    /\ scanners_ = <<>>
    /\ scanner_state = [s \in StandardScanners |-> NewScannerState]
    /\ report_ = None
    /\ pc = "idle"
    /\ mode = ""
    /\ progress_callback = FALSE
    /\ scanners = <<>>
    /\ total = 0
    /\ i = 0
    /\ returned = None
    /\ clock = 0
    /\ register_log = <<>>
    /\ progress_calls = <<>>
    /\ run_log = <<>>

\* register_scanners(get_all_scanners()): the loop registers the next scanner
\* of the list
StandardRegisterScanner ==
    /\ Len(register_log) < Len(GetAllScanners)
    /\ LET s == Len(ExampleScanners) + Len(register_log) + 1
       IN  /\ scanner_state' = [scanner_state EXCEPT ![s] = SetAdminStatus(@, is_admin)]
           /\ scanners_' = DictSet(scanners_, StandardKeys[s], s)
           /\ register_log' = Append(register_log, s)
    /\ UNCHANGED <<is_admin, report_, pc, mode, progress_callback, scanners, total, i,
                   returned, clock, progress_calls, run_log>>

\* scanners = self.get_scanners_for_mode(m); total = len(scanners).  run_log
\* holds the last call: its mode and how many scanners were registered then
StandardGetScannersForMode(m) ==
    /\ mode' = m
    /\ scanners' = GetScannersForMode(scanners_, m)
    /\ total' = Len(scanners')
    /\ run_log' = <<[mode |-> m, registered |-> Len(register_log)]>>
    /\ UNCHANGED <<is_admin, scanners_, scanner_state, report_, pc, progress_callback, i,
                   returned, clock, register_log, progress_calls>>

StandardNext ==
    \/ StandardRegisterScanner
    \/ \E m \in ModeNames : StandardGetScannersForMode(m)

StandardSpec == StandardInit /\ [][StandardNext]_vars

-----------------------------------------------------------------------------
(* A DiagnosticsReport used on its own: any sequence of its operations *)

\* Results to add to the report: of a scan that returned, of one that raised,
\* of a scanner that was not available
ReportResults == {
    SetDuration(Scan(1, CHOOSE o \in ScanOutcomes : ~o.raises, 0), NewScannerState, 1),
    ExceptResult(3, NewScannerState, 2, <<"boom">>),
    NotAvailableResult(2, NewScannerState, 0) }

\* DiagnosticsReport() at time 0; pc says how often finalize was called:
\* "open", "finalized", "finalized_again"
ReportInit ==
    /\ is_admin = FALSE
    /\ scanners_ = <<>>
    /\ scanner_state = [s \in Scanners |-> NewScannerState]
    /\ report_ = Some(DiagnosticsReport(0))
    /\ pc = "open"
    /\ mode = ""
    /\ progress_callback = FALSE
    /\ scanners = <<>>
    /\ total = 0
    /\ i = 0
    /\ returned = None
    /\ clock = 0
    /\ register_log = <<>>
    /\ progress_calls = <<>>
    /\ run_log = <<>>

\* report.add_result(result)
ReportAddResult ==
    /\ Len(report_[1].results) < MaxResults
    /\ \E result \in ReportResults : report_' = Some(AddResult(report_[1], result))
    /\ UNCHANGED <<is_admin, scanners_, scanner_state, pc, mode, progress_callback, scanners,
                   total, i, returned, clock, register_log, progress_calls, run_log>>

\* report.finalize()
ReportFinalize ==
    /\ report_' = Some(Finalize(report_[1], clock))
    /\ pc' = IF pc = "open" THEN "finalized" ELSE "finalized_again"
    /\ UNCHANGED <<is_admin, scanners_, scanner_state, mode, progress_callback, scanners,
                   total, i, returned, clock, register_log, progress_calls, run_log>>

\* Reading report.total_duration_ms; returned holds the value read
ReportRead ==
    /\ returned' = Some(TotalDurationMs(report_[1]))
    /\ UNCHANGED <<is_admin, scanners_, scanner_state, report_, pc, mode, progress_callback,
                   scanners, total, i, clock, register_log, progress_calls, run_log>>

\* Time passes
ReportTick ==
    /\ clock < MaxClock
    /\ clock' = clock + 1
    /\ UNCHANGED <<is_admin, scanners_, scanner_state, report_, pc, mode, progress_callback,
                   scanners, total, i, returned, register_log, progress_calls, run_log>>

ReportNext ==
    \/ ReportAddResult
    \/ ReportFinalize
    \/ ReportRead
    \/ ReportTick

ReportSpec == ReportInit /\ [][ReportNext]_vars

-----------------------------------------------------------------------------
(* Properties *)

\* The report run_scan works on, and what the history says of run k
Report == report_[1]
ScanRaised(k) == run_log[k].scan_called /\ run_log[k].out.raises
ScanReturned(k) == run_log[k].scan_called /\ ~run_log[k].out.raises
NotAvailable(k) == ~run_log[k].scan_called

\* The scanners the registry holds
Registered == {scanners_[k].scanner : k \in DOMAIN scanners_}

\* C1: when run_scan has returned, the report's results are as many as
\* get_scanners_for_mode(mode) gives, and every scanner of that selection has
\* exactly one result and was run exactly once, at its place in the selection,
\* whatever its run did (succeeded, was not available, raised).
TotalCoverage ==
    pc = "done" =>
        LET selected == GetScannersForMode(scanners_, mode)
            results == returned[1].results
        IN  /\ Len(results) = Len(selected)
            /\ \A k \in DOMAIN selected :
                 /\ Cardinality({j \in DOMAIN results :
                        results[j].scanner_name = Name(selected[k])}) = 1
                 /\ Cardinality({j \in DOMAIN run_log :
                        run_log[j].scanner = selected[k]}) = 1
                 /\ results[k].scanner_name = Name(selected[k])

\* A returned scan of three scanners: one succeeded, one was not available, one raised
TotalCoverageWitness ==
    /\ pc = "done"
    /\ Len(returned[1].results) = 3
    /\ \E a, b, c \in DOMAIN run_log : ScanReturned(a) /\ NotAvailable(b) /\ ScanRaised(c)

\* C2: for a mode that is not a key of MODES, get_scanners_for_mode gives the
\* empty list, and run_scan returns a finalized report without results, having
\* called the progress callback exactly once, with (0, 0, "Complete").
UnknownModeSelectsNothing ==
    (pc = "done" /\ mode \notin DOMAIN MODES) =>
        /\ GetScannersForMode(scanners_, mode) = <<>>
        /\ returned[1].results = <<>>
        /\ returned[1].end_time # None
        /\ progress_callback => progress_calls = <<ProgressCall(0, 0, "Complete")>>

\* C3, as claimed: when scan() raises, run() returns a result with success
\* false and error the exception's message, and that error is not empty.
FaultGivesNonEmptyError ==
    \A k \in DOMAIN run_log :
        ScanRaised(k) =>
            /\ Report.results[k].success = FALSE
            /\ Report.results[k].error = Some(ExceptionStr(run_log[k].out.args))
            /\ Report.results[k].error # Some("")

\* C3, amended: when scan() raises an Exception, run() returns a result with
\* success false, no findings and error str(e), which is the empty string
\* when the exception carries no message.
FaultGivesErrorMessage ==
    \A k \in DOMAIN run_log :
        ScanRaised(k) =>
            /\ Report.results[k].success = FALSE
            /\ Report.results[k].findings = <<>>
            /\ Report.results[k].error = Some(ExceptionStr(run_log[k].out.args))

\* A scan raised an exception without a message, and one with a message
FaultGivesErrorMessageWitness ==
    /\ \E k \in DOMAIN run_log :
         ScanRaised(k) /\ run_log[k].out.args = <<>> /\ Report.results[k].error = Some("")
    /\ \E k \in DOMAIN run_log :
         ScanRaised(k) /\ Report.results[k].error = Some("boom")

\* What C4 says of the states: no exception has left run_scan, and once it
\* has returned after a scan() that raised, every scanner selected after the
\* one that raised was run exactly once, its result is in the report at its
\* place, and the report is finalized and is the value returned
FaultContained ==
    /\ pc # "raised"
    /\ \A k \in DOMAIN run_log :
         (ScanRaised(k) /\ pc = "done") =>
             /\ returned = report_
             /\ returned[1].end_time # None
             /\ Len(returned[1].results) = Len(scanners)
             /\ \A j \in (k + 1)..Len(scanners) :
                  /\ Cardinality({r \in DOMAIN run_log :
                         run_log[r].scanner = scanners[j]}) = 1
                  /\ run_log[j].scanner = scanners[j]
                  /\ returned[1].results[j].scanner_name = Name(scanners[j])

\* C4: a scan() that raises does not stop the scan: the scanners selected
\* after it are still run exactly once and their results appended, and the
\* run_scan call goes on to finalize the report and return it.
FaultDoesNotStopScan ==
    /\ []FaultContained
    /\ (\E k \in DOMAIN run_log : ScanRaised(k)) ~> (pc = "done" /\ returned = report_)

\* run_scan has returned, the first scanner's scan() raised, and the two
\* scanners after it were run, one of them successfully
FaultDoesNotStopScanWitness ==
    /\ pc = "done"
    /\ Len(scanners) = 3
    /\ ScanRaised(1)
    /\ ScanReturned(2) \/ ScanReturned(3)
    /\ Len(returned[1].results) = 3

\* C5: with an engine that is not admin, every run of a registered scanner
\* that requires admin gives a result with success false, no findings and the
\* fixed "not available" error, and never calls scan().
AdminShortCircuit ==
    ~is_admin =>
        \A k \in DOMAIN run_log :
            ScannerDefs[run_log[k].scanner].requires_admin =>
                /\ ~run_log[k].scan_called
                /\ Report.results[k].success = FALSE
                /\ Report.results[k].findings = <<>>
                /\ Report.results[k].error = Some(NotAvailableError)

\* A scanner that requires admin was run by an engine that is not admin
AdminShortCircuitWitness ==
    /\ ~is_admin
    /\ pc = "done"
    /\ \E k \in DOMAIN run_log :
         /\ ScannerDefs[run_log[k].scanner].requires_admin
         /\ Report.results[k].error = Some(NotAvailableError)

\* C6: in a run_scan call with a progress callback and N selected scanners,
\* the k-th progress call has current = k - 1 and total = N; there are at most
\* N calls while the scanners run and exactly N + 1 when run_scan has
\* returned: current goes 0, 1, ..., N.
ProgressMonotone ==
    progress_callback =>
        LET N == Len(GetScannersForMode(scanners_, mode))
        IN  /\ \A k \in DOMAIN progress_calls :
                 progress_calls[k].current = k - 1 /\ progress_calls[k].total = N
            /\ pc = "done" => Len(progress_calls) = N + 1
            /\ pc # "done" => Len(progress_calls) <= N

\* run_scan has returned after three scanners and four progress calls
ProgressMonotoneWitness ==
    /\ pc = "done"
    /\ progress_callback
    /\ total = 3
    /\ Len(progress_calls) = 4
    /\ progress_calls[4].current = 3

\* C7: the result of a scan() that returned normally is stored in the report
\* with the time run() measured, from its start to the return of scan(), as
\* duration_ms, whatever duration_ms the scanner had put into it.
DurationAuthority ==
    \A k \in DOMAIN run_log :
        ScanReturned(k) =>
            Report.results[k].duration_ms = (run_log[k].ended - run_log[k].started) * 1000

\* The second scanner of a scan returned a result with duration_ms 999999,
\* and the report holds it with the measured 1000
DurationAuthorityWitness ==
    /\ Len(run_log) >= 2
    /\ ScanReturned(2)
    /\ run_log[2].started > 0
    /\ run_log[2].out.duration_ms = 999999
    /\ Report.results[2].duration_ms = 1000

\* The findings of a report, each named by the place of its result and its
\* place in the result, and those of them that have the severity sev
FindingPlaces(report) ==
    UNION {{<<k, j>> : j \in DOMAIN report.results[k].findings} : k \in DOMAIN report.results}
FindingsOf(report, sev) ==
    {p \in FindingPlaces(report) : report.results[p[1]].findings[p[2]].severity = sev}

\* C8: critical_count, warning_count and pass_count of a report are the
\* numbers of its findings of that severity, counted over all results with
\* repetitions; findings of severity info or unknown add to none of them.
SeverityCounts ==
    report_ # None =>
        /\ CriticalCount(Report) = Cardinality(FindingsOf(Report, CRITICAL))
        /\ WarningCount(Report) = Cardinality(FindingsOf(Report, WARNING))
        /\ PassCount(Report) = Cardinality(FindingsOf(Report, PASS))
        /\ CriticalCount(Report) + WarningCount(Report) + PassCount(Report)
               = Cardinality(FindingPlaces(Report))
                   - Cardinality(FindingsOf(Report, INFO) \cup FindingsOf(Report, UNKNOWN))

\* A report with findings in two results and an empty result between them:
\* four critical, two warning, two pass, and info and unknown findings besides
SeverityCountsWitness ==
    /\ report_ # None
    /\ Len(Report.results) = 3
    /\ Report.results[2].findings = <<>>
    /\ CriticalCount(Report) = 4
    /\ WarningCount(Report) = 2
    /\ PassCount(Report) = 2
    /\ FindingsOf(Report, INFO) # {}
    /\ FindingsOf(Report, UNKNOWN) # {}

\* The key under which register_scanner stores the scanner s
ScannerKeys == [s \in Scanners |-> NormalizedKey(ScannerDefs[s].name)]
KeyOf(s) == ScannerKeys[s]

\* The members of a sequence
Members(seq) == {seq[k] : k \in DOMAIN seq}

\* C9: for a mode with an allow-list the selection is exactly the registered
\* scanners whose key or whose category is in the list, each once; for full
\* it is every registered scanner; and run_scan calls run() (is_available,
\* scan) of selected scanners only.
SelectionExact ==
    pc # "idle" =>
        /\ (mode \in DOMAIN MODES /\ MODES[mode] # None) =>
               /\ Members(scanners) =
                      {s \in Registered : \/ KeyOf(s) \in Members(MODES[mode][1])
                                          \/ Category(s) \in Members(MODES[mode][1])}
               /\ Cardinality(Members(scanners)) = Len(scanners)
        /\ mode = "full" =>
               /\ Members(scanners) = Registered
               /\ Cardinality(Members(scanners)) = Len(scanners)
        /\ \A k \in DOMAIN run_log : run_log[k].scanner \in Members(scanners)

\* A security scan has returned: it selected a scanner by its category and
\* left a registered scanner out
SelectionExactWitness ==
    /\ pc = "done"
    /\ mode = "security"
    /\ \E k \in DOMAIN scanners :
         /\ KeyOf(scanners[k]) \notin Members(MODES[mode][1])
         /\ Category(scanners[k]) \in Members(MODES[mode][1])
    /\ Registered \ Members(scanners) # {}
    /\ Len(run_log) = Len(scanners)

\* The places in register_log of the calls that registered the scanner s, and
\* of the calls that registered a scanner under the key key
CallsOf(s) == {c \in DOMAIN register_log : register_log[c] = s}
CallsOfKey(key) == {c \in DOMAIN register_log : KeyOf(register_log[c]) = key}
FirstCallOfKey(key) == CHOOSE c \in CallsOfKey(key) : \A d \in CallsOfKey(key) : c <= d

\* C10, as claimed: of any two selected scanners the one that comes first was
\* registered by an earlier register_scanner call than the other, also when
\* keys were registered more than once.
SelectionInRegisterCallOrder ==
    pc # "idle" =>
        \A a, b \in DOMAIN scanners :
            a < b => \E ca \in CallsOf(scanners[a]), cb \in CallsOf(scanners[b]) : ca < cb

\* C10, amended: the selection, and with it the report's results, follows the
\* order in which the keys were first registered: of any two selected
\* scanners the one whose key was registered first comes first, whatever the
\* order of the mode's allow-list; a scanner registered under a key that is
\* already there takes the place of the scanner it replaces.
SelectionInKeyOrder ==
    pc # "idle" =>
        /\ \A a, b \in DOMAIN scanners :
             a < b => FirstCallOfKey(KeyOf(scanners[a])) < FirstCallOfKey(KeyOf(scanners[b]))
        /\ \A k \in DOMAIN Report.results : Report.results[k].scanner_name = Name(scanners[k])

\* A quick scan has returned after the calls register(CPU), register(Disk
\* Usage), register(cpu): the scanner registered last is first in the report
SelectionInKeyOrderWitness ==
    /\ pc = "done"
    /\ mode = "quick"
    /\ register_log = <<1, 3, 2>>
    /\ scanners = <<2, 3>>
    /\ Len(Report.results) = 2
    /\ Report.results[1].scanner_name = "cpu"

\* The last register_scanner call that registered a scanner under the key key
LastCallOfKey(key) == CHOOSE c \in CallsOfKey(key) : \A d \in CallsOfKey(key) : d <= c

\* C11: after any sequence of register_scanner calls the registry holds one
\* scanner per normalized key (the name in lower case with "_" for " "): the
\* keys are those of the scanners registered so far, no key is there twice,
\* and under each key is the scanner of the last call whose name gives that key.
RegistryLastWriteWins ==
    /\ ScannerKeys = <<"cpu", "cpu", "disk_usage", "wifi">>
    /\ {scanners_[k].key : k \in DOMAIN scanners_} = {KeyOf(register_log[c]) : c \in DOMAIN register_log}
    /\ \A k, j \in DOMAIN scanners_ : scanners_[k].key = scanners_[j].key => k = j
    /\ \A k \in DOMAIN scanners_ :
         scanners_[k].scanner = register_log[LastCallOfKey(scanners_[k].key)]

\* CPU, then cpu were registered, and Disk Usage: two keys, cpu holds the
\* scanner registered second
RegistryLastWriteWinsWitness ==
    /\ register_log = <<1, 2, 3>>
    /\ Len(scanners_) = 2
    /\ scanners_[1] = [key |-> "cpu", scanner |-> 2]
    /\ scanners_[2] = [key |-> "disk_usage", scanner |-> 3]

\* is_available() raised in run k
AvailabilityRaised(k) == run_log[k].available = "raised"

\* C12, as claimed: no run_scan call ends with an exception, whatever the
\* mode, the scanners (whose is_available or scan may raise) and the progress
\* callback do.
RunScanNeverRaises == pc \notin {"raised", "callback_raised"}

\* C12, amended: no exception of a scanner's is_available or scan leaves
\* run_scan, each becomes a result with success false; an exception leaves
\* run_scan only when the progress callback raised it, and a call whose
\* callback did not raise returns the report.
RunScanRaisesOnlyFromCallback ==
    /\ pc # "raised"
    /\ \A k \in DOMAIN run_log :
         (ScanRaised(k) \/ AvailabilityRaised(k)) =>
             /\ k <= Len(Report.results)
             /\ Report.results[k].success = FALSE
    /\ pc = "callback_raised" =>
         /\ progress_callback
         /\ progress_calls # <<>>
         /\ returned = None
    /\ pc = "done" => returned = report_ /\ returned # None

\* A scan() and an is_available() raised and became results; then the
\* progress callback raised
RunScanRaisesOnlyFromCallbackWitness ==
    /\ pc = "callback_raised"
    /\ \E k \in DOMAIN run_log : ScanRaised(k)
    /\ \E k \in DOMAIN run_log : AvailabilityRaised(k)
    /\ Len(Report.results) = 2

\* C13, as claimed: end_time is None before finalize is called, and once set
\* it keeps its value under every later operation on the report, a further
\* finalize included.
EndTimeFixedOnceSet ==
    /\ [](pc = "open" => Report.end_time = None)
    /\ [][Report.end_time # None => Report'.end_time = Report.end_time]_vars

\* C13, amended: end_time is None before finalize is called and present
\* after; add_result and reading total_duration_ms leave it as it is; every
\* finalize call, the first and any later one, sets it to the time of that call.
EndTimeSetByFinalize ==
    /\ [](pc = "open" <=> Report.end_time = None)
    /\ [][ReportFinalize => Report'.end_time = Some(clock)]_vars
    /\ [][(ReportAddResult \/ ReportRead \/ ReportTick) => Report'.end_time = Report.end_time]_vars

\* finalize was called a second time, later than the first, on a report
\* with results, and the end time is that of the second call
EndTimeSetByFinalizeWitness ==
    /\ pc = "finalized_again"
    /\ Report.results # <<>>
    /\ Report.end_time = Some(clock)
    /\ clock = MaxClock
    /\ returned = Some(clock * 1000)

\* C14, as claimed: every result of the report has an error exactly when its
\* success is false, whatever scan() returned.
ErrorIffFailed ==
    report_ # None => \A k \in DOMAIN Report.results :
        (Report.results[k].error # None) <=> (Report.results[k].success = FALSE)

\* C14, amended: a result run() builds itself (scanner not available, or an
\* exception caught) has success false and an error; a result scan() returned
\* has the success and the error scan() gave it, unchanged, so that it has an
\* error exactly when it failed only if scan() built it that way.
ErrorAsScanSetIt ==
    report_ # None => \A k \in DOMAIN Report.results :
        LET r == Report.results[k]
            e == run_log[k]
        IN  IF e.scan_called /\ ~e.out.raises
            THEN /\ r.success = e.out.success
                 /\ r.error = e.out.error
                 /\ e.out \in ScanOutcomes => ((r.error # None) <=> (r.success = FALSE))
            ELSE /\ r.success = FALSE
                 /\ r.error # None

\* A returned report with a successful result that has an error, a failed
\* result that has none, and a result run() built itself
ErrorAsScanSetItWitness ==
    /\ pc = "done"
    /\ \E k \in DOMAIN Report.results :
           Report.results[k].success /\ Report.results[k].error = Some("partial")
    /\ \E k \in DOMAIN Report.results :
           ~Report.results[k].success /\ Report.results[k].error = None
    /\ \E k \in DOMAIN Report.results :
           ~run_log[k].scan_called /\ Report.results[k].error # None

AvailabilityFaultContained ==
    /\ pc # "raised"
    /\ \A k \in DOMAIN run_log :
           AvailabilityRaised(k) =>
               /\ ~run_log[k].scan_called
               /\ Len(Report.results) = Len(run_log)
               /\ Report.results[k].scanner_name = Name(run_log[k].scanner)
               /\ Report.results[k].success = FALSE
               /\ Report.results[k].findings = <<>>
               /\ Report.results[k].error # None
               /\ Report.results[k].error = Some(ExceptionStr(ImportExceptionArgs))
               /\ pc = "done" =>
                      /\ Len(run_log) = Len(scanners)
                      /\ \A j \in DOMAIN scanners : run_log[j].scanner = scanners[j]
                      /\ returned = report_
                      /\ Report.end_time # None

\* run_scan has returned; the is_available() of the first of three selected
\* scanners raised, and the scan() of the two after it was called
AvailabilityFaultContainedWitness ==
    /\ pc = "done"
    /\ Len(run_log) = 3
    /\ AvailabilityRaised(1)
    /\ Report.results[1].error = Some("import failed")
    /\ run_log[2].scan_called
    /\ run_log[3].scan_called

\* C17: in a run_scan call with a progress callback, the progress call for
\* the scanner at index i is (i, total, name of that scanner); it is made when
\* the results of the scanners 0..i-1, and no others, are in the report and
\* the run() of scanner i has not started; the run() of scanner i starts only
\* after that call.  The run() calls follow the selection one at a time: each
\* starts when the one before it has ended.
ProgressBeforeRun ==
    /\ [](progress_callback =>
            /\ pc = "loop" =>
                   /\ Len(progress_calls) = i
                   /\ Len(Report.results) = i
                   /\ Len(run_log) = i
            /\ pc = "run" =>
                   /\ Len(progress_calls) = i + 1
                   /\ progress_calls[i + 1].current = i
                   /\ progress_calls[i + 1].total = Len(scanners)
                   /\ progress_calls[i + 1].label = Name(scanners[i + 1])
                   /\ Len(Report.results) = i
                   /\ Len(run_log) = i)
    /\ [](\A k \in DOMAIN run_log :
            /\ run_log[k].index = k - 1
            /\ run_log[k].scanner = scanners[k]
            /\ run_log[k].started <= run_log[k].ended
            /\ k > 1 => run_log[k - 1].ended <= run_log[k].started)
    /\ [][progress_callback /\ Len(run_log') > Len(run_log) =>
            /\ Len(run_log') = Len(run_log) + 1
            /\ Len(progress_calls) = Len(run_log')
            /\ progress_calls[Len(run_log')].label = Name(run_log'[Len(run_log')].scanner)
            /\ progress_calls' = progress_calls]_vars
    /\ [][progress_callback /\ pc = "loop" /\ Len(progress_calls') > Len(progress_calls) =>
            /\ Len(Report.results) = Len(progress_calls)
            /\ Len(run_log) = Len(progress_calls)
            /\ report_' = report_
            /\ run_log' = run_log]_vars

\* The third of three scanners is about to run: its progress call has been
\* made, after the results of the first two, which took time, were appended
ProgressBeforeRunWitness ==
    /\ pc = "run"
    /\ progress_callback
    /\ total = 3
    /\ i = 2
    /\ Len(progress_calls) = 3
    /\ Len(Report.results) = 2
    /\ run_log[1].ended > run_log[1].started
    /\ run_log[2].started >= run_log[1].ended

\* C18: in a run_scan call the report has no end time while the loop runs;
\* finalize() is called in one step only, when the results of all the
\* selected scanners are in the report, and sets the end time; from then on the
\* report does not change (no result is appended, the end time is not set
\* again); the terminal progress call (total, total, "Complete") is made after
\* that step, on a report that has its end time, and run_scan returns it.
FinalizeOnceBeforeTerminalCall ==
    /\ [](pc \in {"loop", "run"} => Report.end_time = None)
    /\ [](pc \in {"complete", "done"} =>
            /\ Report.end_time # None
            /\ Len(Report.results) = Len(scanners))
    /\ [](progress_callback /\ pc \in {"loop", "run", "complete"} =>
            \A k \in DOMAIN progress_calls : progress_calls[k].label # "Complete")
    /\ [][report_ # None /\ report_' # report_ /\ Report'.end_time # None =>
            /\ Report.end_time = None
            /\ Report' = Finalize(Report, clock)
            /\ Len(Report.results) = Len(scanners)
            /\ pc = "loop" /\ pc' = "complete"
            /\ progress_calls' = progress_calls]_vars
    /\ [][(pc \in {"complete", "done"}) => UNCHANGED report_]_vars
    /\ [][progress_callback /\ pc = "complete" /\ pc' # pc =>
            /\ Report.end_time # None
            /\ progress_calls' = Append(progress_calls, ProgressCall(total, total, "Complete"))
            /\ returned' = report_
            /\ pc' = "done"]_vars

\* run_scan has returned a report of three results, finalized after the last
\* of them, and the terminal progress call is the last of four
FinalizeOnceBeforeTerminalCallWitness ==
    /\ pc = "done"
    /\ progress_callback
    /\ Len(Report.results) = 3
    /\ Report.end_time = Some(run_log[3].ended)
    /\ run_log[3].ended > Report.start_time
    /\ Len(progress_calls) = 4
    /\ progress_calls[4] = ProgressCall(3, 3, "Complete")
    /\ returned = report_

\* What the history says: some scan() of this run_scan call did not return
SomeScanHung == \E k \in DOMAIN run_log : run_log[k].hung

\* C19: a run_scan call whose run() calls all return reaches its return, with
\* a finalized report of one result per selected scanner.  When a scan() does
\* not return, run_scan stays inside that call for ever: the scanner that
\* hangs is the last one run, it has no result, the report has no end time,
\* no terminal progress call is made and run_scan does not return: no step
\* leaves that state.  Every run_scan call ends in one of the two ways.
HangBlocksScan ==
    /\ [](SomeScanHung <=> pc = "hung")
    /\ [](pc = "hung" =>
            /\ run_log[Len(run_log)].hung
            /\ Len(run_log) = i + 1
            /\ i < total
            /\ Len(Report.results) = i
            /\ Report.end_time = None
            /\ returned = None
            /\ \A k \in DOMAIN progress_calls : progress_calls[k].label # "Complete")
    /\ [][pc = "hung" => UNCHANGED vars]_vars
    /\ [](pc = "done" =>
            /\ Report.end_time # None
            /\ Len(Report.results) = Len(scanners)
            /\ returned = report_)
    /\ (pc \in {"loop", "run", "complete"}) ~> (pc = "done" \/ pc = "hung")

\* The scan() of the second of three selected scanners hangs: one result, two
\* progress calls, no end time, nothing returned
HangBlocksScanWitness ==
    /\ pc = "hung"
    /\ progress_callback
    /\ total = 3
    /\ Len(run_log) = 2
    /\ run_log[2].hung
    /\ Len(Report.results) = 1
    /\ Len(progress_calls) = 2
    /\ Report.end_time = None
    /\ returned = None

\* The run() calls of this run_scan call that have returned
ReturnedRuns == {k \in DOMAIN run_log : ~run_log[k].hung}

RECURSIVE DurationOfFirst(_, _)
DurationOfFirst(report, n) ==
    IF n = 0 THEN 0 ELSE DurationOfFirst(report, n - 1) + report.results[n].duration_ms

\* C21: every read of total_duration_ms gives (end_time - start_time) in
\* milliseconds when the report has an end time, and the sum of the
\* duration_ms of its results when it has none, for the report as it is at
\* the time of the read; the read changes nothing and the report has no field
\* that holds the value.
TotalDurationComputed ==
    /\ [](DOMAIN Report = {"results", "start_time", "end_time"})
    /\ [][ReportRead =>
            /\ returned' = Some(IF pc = "open"
                                THEN DurationOfFirst(Report, Len(Report.results))
                                ELSE (Report.end_time[1] - Report.start_time) * 1000)
            /\ UNCHANGED report_]_vars

\* The value read from a finalized report of two results is the 3000 ms from
\* its start to its end, not the 1000 ms its results add up to
TotalDurationComputedWitness ==
    /\ pc = "finalized"
    /\ Len(Report.results) = 2
    /\ DurationOfFirst(Report, 2) = 1000
    /\ Report.end_time = Some(3)
    /\ returned = Some(3000)

\* C22: the result of a scan() that returned is in the report with the
\* scanner_name, category, success, findings in their order, raw_data, error
\* and timestamp scan() gave it; duration_ms alone is what run() measured.
ScanResultPassedThrough ==
    report_ # None => \A k \in DOMAIN Report.results :
        ScanReturned(k) =>
            LET r == Report.results[k]
                e == run_log[k]
            IN  /\ r.scanner_name = Name(e.scanner)
                /\ r.category = Category(e.scanner)
                /\ r.success = e.out.success
                /\ Len(r.findings) = Len(e.out.severities)
                /\ \A j \in DOMAIN r.findings :
                       r.findings[j] = Finding(e.scanner, e.out.severities[j])
                /\ r.raw_data = e.out.raw_data
                /\ r.error = e.out.error
                /\ r.timestamp = e.started + e.out.created
                /\ r.duration_ms = (e.ended - e.started) * 1000
                /\ DOMAIN r = {"scanner_name", "category", "success", "findings",
                               "duration_ms", "raw_data", "error", "timestamp"}

\* A scan() returned six findings, raw data, an error with success, a
\* timestamp before its end and its own duration: all but the duration are in
\* the report; another returned a result made at its end
ScanResultPassedThroughWitness ==
    /\ pc = "done"
    /\ \E k \in DOMAIN Report.results :
           /\ ScanReturned(k)
           /\ Len(Report.results[k].findings) = 6
           /\ Report.results[k].findings[1].severity = CRITICAL
           /\ Report.results[k].findings[6].severity = UNKNOWN
           /\ Report.results[k].raw_data = << <<"cores", 6>> >>
           /\ Report.results[k].timestamp < run_log[k].ended
           /\ run_log[k].out.duration_ms = 999999
           /\ Report.results[k].duration_ms = 1000
    /\ \E k \in DOMAIN Report.results :
           /\ ScanReturned(k)
           /\ Report.results[k].error = Some("partial")
           /\ Report.results[k].timestamp = run_log[k].ended

\* C23: no step of a run_scan call, from the call to its return or to the
\* scan() that hangs, changes the registry (its keys, their order, the scanner
\* under each key), the engine's is_admin or the is_admin of any scanner.
RunScanLeavesRegistry ==
    [][(pc # "idle" \/ pc' # "idle") =>
          /\ scanners_' = scanners_
          /\ is_admin' = is_admin
          /\ \A s \in Scanners : scanner_state'[s].is_admin_ = scanner_state[s].is_admin_]_vars

\* run_scan has returned after running three scanners of a privileged engine,
\* one of them after a scan() that raised; the registry holds those three
RunScanLeavesRegistryWitness ==
    /\ pc = "done"
    /\ is_admin
    /\ Len(scanners_) = 3
    /\ Len(run_log) = 3
    /\ \E k \in DOMAIN run_log : ScanRaised(k)
    /\ \A k \in DOMAIN scanners_ : scanner_state[scanners_[k].scanner].is_admin_

\* C24: every scanner in an engine's registry has that engine's is_admin as
\* its own, and in every scan a scanner that requires admin rights and whose
\* dependencies import has its scan() called exactly when the engine that
\* scans is privileged.
AdminCheckAgainstOwnEngine ==
    /\ \A e \in Engines : \A k \in DOMAIN scanners_[e] :
           scanner_state[scanners_[e][k].scanner].is_admin_ = is_admin[e]
    /\ \A k \in DOMAIN run_log :
           LET s == run_log[k].scanner
               deps == ScannerDefs[s].dependencies
           IN  (ScannerDefs[s].requires_admin
                  /\ \A d \in DOMAIN deps : run_log[k].imports[deps[d]] = "ok")
               => (run_log[k].scan_called <=> is_admin[run_log[k].engine])

\* C25: a report run_scan has returned keeps its results, start_time and
\* end_time under every later call on the engine (run_scan in any mode,
\* run_single_scanner, register_scanner); every run_scan call returns a report
\* object no earlier call returned, and it is finalized.
ReturnedReportFixed ==
    /\ [][\A k \in DOMAIN returned : report_'[returned[k]] = report_[returned[k]]]_vars
    /\ [](\A j, k \in DOMAIN returned : j # k => returned[j] # returned[k])
    /\ [](\A k \in DOMAIN returned : report_[returned[k]].end_time # None)

\* Two run_scan calls have returned: the first report has its one result and
\* its times, the second, made after another registration, has two results
ReturnedReportFixedWitness ==
    /\ Len(returned) = 2
    /\ Len(report_[returned[1]].results) = 1
    /\ Len(report_[returned[2]].results) = 2
    /\ report_[returned[1]].end_time = Some(1)
    /\ report_[returned[2]].start_time >= 1

\* C30: run_single_scanner(name) returns None, and runs nothing, when the
\* registry has no key equal to the normalized name; otherwise it returns the
\* result of one run() of the scanner under that key, however the name is
\* spelled; it changes neither the registry nor any report.
RunSingleScannerByKey ==
    [][(Len(run_log') > Len(run_log) /\ run_log'[Len(run_log')].call = "run_single_scanner") =>
          LET e == run_log'[Len(run_log')]
              matches == {k \in DOMAIN scanners_ : scanners_[k].key = NormalizedKey(e.name)}
          IN  /\ matches = {} =>
                     /\ e.value = None
                     /\ e.ran = <<>>
                     /\ UNCHANGED <<scanner_state, clock>>
              /\ matches # {} =>
                     \E k \in matches :
                         LET s == scanners_[k].scanner
                         IN  /\ e.ran = <<s>>
                             /\ e.value = Some(Run(s, scanner_state[s], clock, e.imports,
                                                   EngineScanOutcome).result)
                             /\ e.value[1].scanner_name = Name(s)
                             /\ scanner_state' = [scanner_state EXCEPT ![s].start_time_ = clock]
              /\ UNCHANGED <<scanners_, report_, returned, is_admin>>]_vars

\* With two scanners registered, run_single_scanner("cPu") has run the
\* scanner under "cpu", and run_single_scanner("GPU") has returned None
RunSingleScannerByKeyWitness ==
    /\ Len(run_log) = 2
    /\ Len(scanners_) = 2
    /\ run_log[1].call = "run_single_scanner"
    /\ run_log[1].key = "cpu"
    /\ run_log[1].ran = <<2>>
    /\ run_log[1].value # None
    /\ run_log[2].call = "run_single_scanner"
    /\ run_log[2].key = "gpu"
    /\ run_log[2].value = None

\* The scanners of get_all_scanners() are all registered and those of the
\* mode have been selected
StandardSelected(m) ==
    /\ run_log # <<>>
    /\ run_log[1].mode = m
    /\ run_log[1].registered = Len(GetAllScanners)

\* The scanners selected, and the registered scanners of a category
SelectedScanners == {scanners[k] : k \in DOMAIN scanners}
RegisteredOfCategory(c) ==
    {scanners_[k].scanner : k \in {j \in DOMAIN scanners_ : Category(scanners_[j].scanner) = c}}

ModeSelectsWholeCategory ==
    \A m \in {"hardware", "security", "network"} :
        StandardSelected(m) => RegisteredOfCategory(m) \subseteq SelectedScanners

\* The entries of run_log for the results added to the report at ref, in order
OverlapAdds(ref) == SelectSeq(run_log, LAMBDA e : e.op = "add" /\ e.ref = ref)

\* C28: when two run_scan calls on one engine overlap, each call returns the
\* report it made itself, and that report holds one result for each scanner
\* the call selected, in order, all of them added by that call
EachCallReturnsItsOwnReport ==
    \A c \in Callers :
        pc[c] = "done" =>
            LET ref == returned[c][1]
                adds == OverlapAdds(ref)
            IN  /\ \E k \in DOMAIN run_log :
                       run_log[k] = [call |-> c, op |-> "new", scanner |-> 0, ref |-> ref]
                /\ Len(report_[ref].results) = Len(scanners[c])
                /\ \A k \in DOMAIN adds : adds[k].call = c
                /\ [k \in DOMAIN adds |-> adds[k].scanner] = scanners[c]

\* C29: when two run() calls on one scanner instance overlap, the duration_ms
\* of the result each call returns is the time from the start of that call
\* to its end
DurationSinceOwnStart ==
    \A c \in Callers :
        pc[c] = "done" =>
            returned[c][1].duration_ms = (run_log[c].ended - run_log[c].started) * 1000

====
